---- MODULE Spec2Model ----
(***************************************************************************)
(* Model of pettingzoo/utils/wrapper.py: the class `wrapper`, which sits   *)
(* between a turn-based multi-agent environment and its caller and         *)
(* rewrites observation spaces (once, at construction), observations (on   *)
(* every reset/observe/step) and actions (on every step).                  *)
(*                                                                         *)
(* Arrays are modelled by what the code reads of them: a shape, a dtype    *)
(* and one value shared by all elements (a Box built with scalar bounds,   *)
(* an observation whose pixels are all equal).  Real values are exact      *)
(* rationals [n, d].  uint8 arithmetic is taken modulo 256.                *)
(***************************************************************************)
EXTENDS Integers, Sequences, FiniteSets, TLC

VARIABLES
    args,                    \* the constructor's arguments
    env_observation_spaces,  \* env.observation_spaces as the Environment built them
    orig_action_spaces,      \* env.action_spaces (self.orig_action_spaces)
    pc,                      \* "new" | "ready" | "failed"
    cfg,                     \* self.color_reduction, down_scale, range_scale, new_dtype after _check_wrapper_params
    observation_spaces,      \* self.observation_spaces (the same dict as the Environment's)
    action_spaces,           \* self.action_spaces
    agent_selection,         \* self.agent_selection
    env_agent_selection,     \* self.env.agent_selection
    rewards,                 \* self.rewards (dones and infos are assigned with it)
    env_rewards,             \* self.env.rewards
    stack_of_frames,         \* self.stack_of_frames
    last,                    \* the last call: its inputs, what it returned or raised
    run,                     \* frames delivered by the last reset and the observe calls that followed it
    calls                    \* number of reset/observe/step calls the caller still makes

vars == <<args, env_observation_spaces, orig_action_spaces, pc, cfg,
          observation_spaces, action_spaces, agent_selection,
          env_agent_selection, rewards, env_rewards, stack_of_frames,
          last, run, calls>>

-----------------------------------------------------------------------------
(* Bounds of the model *)

\* reset/observe/step calls made on one wrapper, when its frames are followed
MaxCalls == 5

\* reset/observe/step calls made on one wrapper, when every configuration is tried
FewCalls == 2

\* length of the longest action vector a caller passes to step
MaxActLen == 3

\* the frame_stacking depths tried are 1 and 2..MaxDepth
MaxDepth == 2

-----------------------------------------------------------------------------
(* Program constants *)

COLOR_RED_LIST == <<"full", "R", "G", "B">>

OBS_RESHAPE_LIST == <<"expand", "flatten">>

\* width of np.uint8, the dtype block_reduce's mean is computed in
Uint8Mod == 256

\* self.env.agents, in agent_order
agents == <<"a1", "a2">>

AgentSet == {agents[i] : i \in 1..Len(agents)}

-----------------------------------------------------------------------------
(* Arithmetic helpers *)

Range(s) == {s[i] : i \in 1..Len(s)}

RECURSIVE Prod(_)
Prod(s) == IF s = <<>> THEN 1 ELSE Head(s) * Prod(Tail(s))

RECURSIVE Sum(_)
Sum(s) == IF s = <<>> THEN 0 ELSE Head(s) + Sum(Tail(s))

Rat(n, d) == [n |-> n, d |-> d]

RatLeq(x, y) == x.n * y.d <= y.n * x.d

RatEq(x, y) == x.n * y.d = y.n * x.d

IsFloat(dtype) == dtype \in {"float32", "float64"}

\* numpy's cast of an integral value to dtype
Cast(v, dtype) == IF dtype = "uint8" THEN v % Uint8Mod ELSE v

Box(shape, dtype, low, high) ==
    [kind |-> "Box", shape |-> shape, dtype |-> dtype, low |-> low, high |-> high]

-----------------------------------------------------------------------------
(* Action spaces: gym.spaces.Discrete, MultiDiscrete, Box, and any other *)

Discrete(n) ==
    [kind |-> "Discrete", n |-> n, nvec |-> <<>>, len |-> 0,
     unbounded |-> FALSE, low |-> 0, high |-> 0]

MultiDiscrete(nvec) ==
    [kind |-> "MultiDiscrete", n |-> 0, nvec |-> nvec, len |-> 0,
     unbounded |-> FALSE, low |-> 0, high |-> 0]

\* Box(low, high, shape=(len,))
ActBox(len, low, high) ==
    [kind |-> "Box", n |-> 0, nvec |-> <<>>, len |-> len,
     unbounded |-> FALSE, low |-> low, high |-> high]

\* Box(low=-np.inf, high=np.inf, shape=(len,))
UnboundedBox(len) ==
    [kind |-> "Box", n |-> 0, nvec |-> <<>>, len |-> len,
     unbounded |-> TRUE, low |-> 0, high |-> 0]

\* a space that is neither Discrete, MultiDiscrete nor Box (a Tuple, a Dict)
OtherSpace ==
    [kind |-> "Other", n |-> 0, nvec |-> <<>>, len |-> 0,
     unbounded |-> FALSE, low |-> 0, high |-> 0]

-----------------------------------------------------------------------------
(* Constructor arguments.  An option is None, one value for all agents, or *)
(* a dict keyed by agent.                                                  *)

NoArg == [kind |-> "none", map |-> <<>>]

Uniform(v) == [kind |-> "uniform", map |-> [x \in {"all"} |-> v]]

Dict(f) == [kind |-> "dict", map |-> f]

\* dict(zip(self.agents, [value for _ in enumerate(self.agents)]))
MutNormalizeFirstOnly(arg) ==
    IF arg.kind = "uniform"
    THEN [a \in {agents[1]} |-> arg.map["all"]]
    ELSE arg.map

Normalize(arg) ==
    IF arg.kind = "uniform"
    THEN [a \in AgentSet |-> arg.map["all"]]
    ELSE arg.map

NoConfig ==
    [color_reduction |-> NoArg, down_scale |-> NoArg,
     range_scale |-> NoArg, new_dtype |-> NoArg]

\* the four per-agent options after their isinstance branches
NormalizedConfig(a) ==
    [color_reduction |-> [kind |-> a.color_reduction.kind, map |-> Normalize(a.color_reduction)],
     down_scale |-> [kind |-> a.down_scale.kind, map |-> Normalize(a.down_scale)],
     range_scale |-> [kind |-> a.range_scale.kind, map |-> Normalize(a.range_scale)],
     new_dtype |-> [kind |-> a.new_dtype.kind, map |-> Normalize(a.new_dtype)]]

IsSet(opt) == opt.kind # "none"

ColorParamsOK(c, spaces) ==
    IsSet(c.color_reduction) =>
        \A a \in AgentSet :
            /\ a \in DOMAIN c.color_reduction.map
            /\ c.color_reduction.map[a] \in Range(COLOR_RED_LIST)
            /\ Len(spaces[a].shape) = 3

DownScaleParamsOK(c) ==
    IsSet(c.down_scale) => \A a \in AgentSet : a \in DOMAIN c.down_scale.map

ReshapeParamOK(a) ==
    a.reshape # "none" => a.reshape \in Range(OBS_RESHAPE_LIST)

RangeScaleParamsOK(c) ==
    IsSet(c.range_scale) =>
        \A a \in AgentSet :
            /\ a \in DOMAIN c.range_scale.map
            /\ Len(c.range_scale.map[a]) = 2
            /\ c.range_scale.map[a][1] <= c.range_scale.map[a][2]

NewDtypeParamsOK(c) ==
    IsSet(c.new_dtype) => \A a \in AgentSet : a \in DOMAIN c.new_dtype.map

\* every assert of _check_wrapper_params passes
ParamsOK(a, c, spaces) ==
    /\ ColorParamsOK(c, spaces)
    /\ DownScaleParamsOK(c)
    /\ ReshapeParamOK(a)
    /\ RangeScaleParamsOK(c)
    /\ a.frame_stacking >= 1
    /\ NewDtypeParamsOK(c)

_check_box_space(spaces) == \A a \in AgentSet : spaces[a].kind = "Box"

-----------------------------------------------------------------------------
(* modify_action_space *)

ContinuousSpace(act_space) ==
    CASE act_space.kind = "Discrete" -> UnboundedBox(act_space.n)
      [] act_space.kind = "MultiDiscrete" -> UnboundedBox(Sum(act_space.nvec))
      [] OTHER -> act_space

\* "" or the exception the loop of modify_action_space raises
ModifyActionSpaceErr(a, orig) ==
    IF a.continuous_actions /\ \E ag \in AgentSet : orig[ag].kind = "Other"
    THEN "AssertionError" ELSE ""

\* self.action_spaces when modify_action_space returns or raises: the agents
\* before the first unsupported one are rewritten
RECURSIVE ModifyActionSpaceLoop(_, _, _)
ModifyActionSpaceLoop(i, orig, spaces) ==
    IF i > Len(agents) \/ orig[agents[i]].kind = "Other" THEN spaces
    ELSE ModifyActionSpaceLoop(i + 1, orig,
            [spaces EXCEPT ![agents[i]] = ContinuousSpace(orig[agents[i]])])

modify_action_space(a, orig) ==
    IF a.continuous_actions THEN ModifyActionSpaceLoop(1, orig, orig) ELSE orig

-----------------------------------------------------------------------------
(* The transform steps shared by the space rewrite and the data rewrite *)

\* "" or the exception that slicing or averaging the channel axis raises
ColorErr(shape, mode) ==
    CASE mode = "R" /\ shape[3] < 1 -> "IndexError"
      [] mode = "G" /\ shape[3] < 2 -> "IndexError"
      [] mode = "B" /\ shape[3] < 3 -> "IndexError"
      [] mode = "full" /\ shape[3] # 3 -> "ValueError"
      [] OTHER -> ""

\* a[:, :, c] and np.average(a, weights, axis=2) both drop the channel axis
ColorShape(shape) == SubSeq(shape, 1, 2)

\* tuple([int(shape[i] / down_scale[i]) for i in range(len(shape))])
SpaceDownShape(shape, down_scale) ==
    [i \in 1..Len(shape) |-> shape[i] \div down_scale[i]]

\* skimage.measure.block_reduce pads each axis up to a multiple of the block
BlockReduceShape(shape, down_scale) ==
    [i \in 1..Len(shape) |-> (shape[i] + down_scale[i] - 1) \div down_scale[i]]

ReshapeShape(shape, reshape) ==
    IF reshape = OBS_RESHAPE_LIST[1] THEN Append(shape, 1)
    ELSE <<Prod(shape)>>

\* dtype of the range_scale branch: new_dtype[agent] if set, else the current one
TargetDtype(c, agent, current) ==
    IF IsSet(c.new_dtype) THEN c.new_dtype.map[agent] ELSE current

-----------------------------------------------------------------------------
(* modify_observation_space.  Each step is a loop over self.agents; st is  *)
(* [err, spaces, loc]: the exception raised so far, self.observation_spaces*)
(* and the method's local variable obs_space (unbound until a loop runs).  *)

Unbound == [bound |-> FALSE, sp |-> Box(<<>>, "uint8", Rat(0, 1), Rat(0, 1))]

Bound(sp) == [bound |-> TRUE, sp |-> sp]

Raise(st, e, sp) == [st EXCEPT !.err = e, !.loc = Bound(sp)]

Store(st, agent, sp, new) ==
    [err |-> "", spaces |-> [st.spaces EXCEPT ![agent] = new], loc |-> Bound(sp)]

RECURSIVE SpaceColorLoop(_, _, _)
SpaceColorLoop(i, st, c) ==
    IF i > Len(agents) \/ st.err # "" THEN st
    ELSE LET agent == agents[i]
             obs_space == st.spaces[agent]
             e == ColorErr(obs_space.shape, c.color_reduction.map[agent])
         IN  SpaceColorLoop(i + 1,
                IF e # "" THEN Raise(st, e, obs_space)
                ELSE Store(st, agent, obs_space,
                        Box(ColorShape(obs_space.shape), obs_space.dtype,
                            obs_space.low, obs_space.high)), c)

RECURSIVE SpaceDownLoop(_, _, _)
SpaceDownLoop(i, st, c) ==
    IF i > Len(agents) \/ st.err # "" THEN st
    ELSE LET agent == agents[i]
             obs_space == st.spaces[agent]
             down_scale == c.down_scale.map[agent]
         IN  SpaceDownLoop(i + 1,
                IF Len(down_scale) < Len(obs_space.shape)
                THEN Raise(st, "IndexError", obs_space)
                ELSE Store(st, agent, obs_space,
                        Box(SpaceDownShape(obs_space.shape, down_scale),
                            obs_space.dtype, obs_space.low, obs_space.high)), c)

RECURSIVE SpaceReshapeLoop(_, _, _)
SpaceReshapeLoop(i, st, reshape) ==
    IF i > Len(agents) THEN st
    ELSE LET agent == agents[i]
             obs_space == st.spaces[agent]
         IN  SpaceReshapeLoop(i + 1,
                Store(st, agent, obs_space,
                    Box(ReshapeShape(obs_space.shape, reshape), obs_space.dtype,
                        obs_space.low, obs_space.high)), reshape)

\* np.subtract(np.divide(bound, max_obs - min_obs, dtype=dtype), min_obs)
SpaceScaleBound(bound, range_scale) ==
    LET min_obs == range_scale[1]
        max_obs == range_scale[2]
    IN  Rat(bound.n - min_obs * (max_obs - min_obs) * bound.d,
            bound.d * (max_obs - min_obs))

RECURSIVE SpaceRangeLoop(_, _, _)
SpaceRangeLoop(i, st, c) ==
    IF i > Len(agents) \/ st.err # "" THEN st
    ELSE LET agent == agents[i]
             obs_space == st.spaces[agent]
             range_scale == c.range_scale.map[agent]
             dtype == TargetDtype(c, agent, obs_space.dtype)
         IN  SpaceRangeLoop(i + 1,
                \* np.divide has no loop that returns an integer dtype
                IF ~IsFloat(dtype) THEN Raise(st, "TypeError", obs_space)
                ELSE Store(st, agent, obs_space,
                        Box(obs_space.shape, dtype,
                            SpaceScaleBound(obs_space.low, range_scale),
                            SpaceScaleBound(obs_space.high, range_scale))), c)

\* the elif branch: low and high are read from the local obs_space, which
\* this loop never assigns
RECURSIVE SpaceDtypeLoop(_, _, _)
SpaceDtypeLoop(i, st, c) ==
    IF i > Len(agents) \/ st.err # "" THEN st
    ELSE LET agent == agents[i]
             dtype == c.new_dtype.map[agent]
             obs_space == st.loc.sp
         IN  SpaceDtypeLoop(i + 1,
                IF ~st.loc.bound THEN [st EXCEPT !.err = "NameError"]
                ELSE [st EXCEPT !.spaces[agent] =
                        Box(obs_space.shape, dtype,
                            Rat(Cast(obs_space.low.n, dtype), obs_space.low.d),
                            Rat(Cast(obs_space.high.n, dtype), obs_space.high.d))], c)

-----------------------------------------------------------------------------
(* frame_stack.stack_obs_space and frame_stack.stack_obs *)

\* the stacking axis is appended to the frame's shape
StackShape(shape, stack_size) == Append(shape, stack_size)

stack_obs_space(spaces, stack_size) ==
    [a \in AgentSet |->
        Box(StackShape(spaces[a].shape, stack_size), spaces[a].dtype,
            spaces[a].low, spaces[a].high)]

\* an agent's entry of stack_of_frames: None, or stack_size slots, oldest first
NoStack == [set |-> FALSE, shape |-> <<>>, dtype |-> "none", slots |-> <<>>]

\* the first frame fills every slot; a later one evicts the oldest slot
stack_obs(frame_stack, agent, obs, stack_size) ==
    IF ~frame_stack[agent].set
    THEN [frame_stack EXCEPT ![agent] =
            [set |-> TRUE, shape |-> obs.shape, dtype |-> obs.dtype,
             slots |-> [i \in 1..stack_size |-> obs]]]
    ELSE [frame_stack EXCEPT ![agent].slots = Append(Tail(@), obs)]

-----------------------------------------------------------------------------
(* modify_observation_space *)

SpaceSteps(a, c, spaces) ==
    LET st0 == [err |-> "", spaces |-> spaces, loc |-> Unbound]
        st1 == IF IsSet(c.color_reduction) THEN SpaceColorLoop(1, st0, c) ELSE st0
        st2 == IF st1.err = "" /\ IsSet(c.down_scale)
               THEN SpaceDownLoop(1, st1, c) ELSE st1
        st3 == IF st2.err = "" /\ a.reshape # "none"
               THEN SpaceReshapeLoop(1, st2, a.reshape) ELSE st2
        st4 == CASE st3.err # "" -> st3
                 [] IsSet(c.range_scale) -> SpaceRangeLoop(1, st3, c)
                 [] IsSet(c.new_dtype) -> SpaceDtypeLoop(1, st3, c)
                 [] OTHER -> st3
    IN  st4

modify_observation_space(a, c, spaces) ==
    LET st == SpaceSteps(a, c, spaces)
    IN  IF st.err = "" /\ a.frame_stacking > 1
        THEN [st EXCEPT !.spaces = stack_obs_space(st.spaces, a.frame_stacking)]
        ELSE st

-----------------------------------------------------------------------------
(* modify_observation.  An observation is [src, val, shape, dtype]: the    *)
(* agent the Environment observed, the value of its elements, and the      *)
(* array's shape and dtype.  r is [err, obs].                              *)

Ok(obs) == [err |-> "", obs |-> obs]

Fail(e, obs) == [err |-> e, obs |-> obs]

ObsColor(c, agent, obs) ==
    IF ~IsSet(c.color_reduction) THEN Ok(obs)
    ELSE IF Len(obs.shape) < 3 THEN Fail("IndexError", obs)
    ELSE IF ColorErr(obs.shape, c.color_reduction.map[agent]) # ""
         THEN Fail(ColorErr(obs.shape, c.color_reduction.map[agent]), obs)
    ELSE Ok([obs EXCEPT !.shape = ColorShape(obs.shape)])

\* np.mean(block, dtype=np.uint8): the sum wraps in uint8, the quotient truncates
BlockMean(val, block) ==
    Rat(((Cast(val.n, "uint8") * block) % Uint8Mod) \div block, 1)

\* dtype of measure.block_reduce's result: that of mean, np.uint8
BlockReduceDtype(dtype) == "uint8"

ObsDownScale(c, agent, obs) ==
    IF ~IsSet(c.down_scale) THEN Ok(obs)
    ELSE LET down_scale == c.down_scale.map[agent]
         IN  IF Len(down_scale) # Len(obs.shape) THEN Fail("ValueError", obs)
             ELSE Ok([obs EXCEPT !.shape = BlockReduceShape(obs.shape, down_scale),
                                 !.dtype = BlockReduceDtype(obs.dtype),
                                 !.val = BlockMean(obs.val, Prod(down_scale))])

ObsReshape(reshape, obs) ==
    IF reshape = "none" THEN Ok(obs)
    ELSE Ok([obs EXCEPT !.shape = ReshapeShape(obs.shape, reshape)])

\* np.divide(np.subtract(obs, min_obs), max_obs - min_obs, dtype=dtype)
\* (the subtraction is done in the observation's own dtype)
ObsScaleValue(val, obs_dtype, range_scale) ==
    LET min_obs == range_scale[1]
        max_obs == range_scale[2]
    IN  Rat(Cast(val.n - min_obs, obs_dtype), max_obs - min_obs)

ObsRangeDtype(c, agent, obs) ==
    IF IsSet(c.range_scale)
    THEN LET dtype == TargetDtype(c, agent, obs.dtype)
         IN  IF ~IsFloat(dtype) THEN Fail("TypeError", obs)
             ELSE Ok([obs EXCEPT !.dtype = dtype,
                        !.val = ObsScaleValue(obs.val, obs.dtype, c.range_scale.map[agent])])
    ELSE IF IsSet(c.new_dtype)
    THEN Ok([obs EXCEPT !.dtype = c.new_dtype.map[agent],
                        !.val = Rat(Cast(obs.val.n, c.new_dtype.map[agent]), obs.val.d)])
    ELSE Ok(obs)

\* the steps before frame stacking
Transform(a, c, agent, observation) ==
    LET r1 == ObsColor(c, agent, observation)
        r2 == IF r1.err = "" THEN ObsDownScale(c, agent, r1.obs) ELSE r1
        r3 == IF r2.err = "" THEN ObsReshape(a.reshape, r2.obs) ELSE r2
        r4 == IF r3.err = "" THEN ObsRangeDtype(c, agent, r3.obs) ELSE r3
    IN  r4

\* self.stack_of_frames after modify_observation(agent, observation)
MutStackAfterOnlyFirst(a, frames, agent, r) ==
    IF r.err = "" /\ a.frame_stacking > 1 /\ ~frames[agent].set
    THEN stack_obs(frames, agent, r.obs, a.frame_stacking)
    ELSE frames

StackAfter(a, frames, agent, r) ==
    IF r.err = "" /\ a.frame_stacking > 1
    THEN stack_obs(frames, agent, r.obs, a.frame_stacking)
    ELSE frames

\* shape and dtype of the array modify_observation returns
Returned(a, frames, agent, r) ==
    IF a.frame_stacking > 1
    THEN [shape |-> StackShape(frames[agent].shape, a.frame_stacking),
          dtype |-> frames[agent].dtype]
    ELSE [shape |-> r.obs.shape, dtype |-> r.obs.dtype]

-----------------------------------------------------------------------------
(* modify_action.  An action is a sequence of reals; r is [err, fwd]: the  *)
(* exception raised, or the set of actions np.random.multinomial can make  *)
(* modify_action return.                                                   *)

\* the reals a caller puts in an action vector: exp(-800 - 0) is 0.0 in float64
LogitVals == {-800, 0}

Max(vec) == CHOOSE x \in Range(vec) : \A y \in Range(vec) : y <= x

\* action[from:to], Python's slice of a sequence indexed from 0
Slice(action, from, to) ==
    LET hi == IF to < Len(action) THEN to ELSE Len(action)
    IN  IF from >= hi THEN <<>> ELSE SubSeq(action, from + 1, hi)

\* warped_act_space.contains(action)
Contains(space, action) ==
    /\ space.kind = "Box"
    /\ Len(action) = space.len
    /\ space.unbounded \/ \A i \in 1..Len(action) :
                              space.low <= action[i] /\ action[i] <= space.high

\* np.argmax(np.random.multinomial(1, softmax(vec))): an index whose
\* probability e_x / e_x.sum() is not zero
sample_softmax(vec) ==
    IF vec = <<>> THEN {}
    ELSE {i \in 0..(Len(vec) - 1) : vec[i + 1] - Max(vec) >= -745}

\* sidx after the segment of `size` entries that starts at sidx
MutNextSidxStays(sidx, size) == sidx

NextSidx(sidx, size) == sidx + size

\* the loop over act_space.nvec: the lists new_action can end as
RECURSIVE SampleSegments(_, _, _)
SampleSegments(nvec, action, sidx) ==
    IF nvec = <<>> THEN {<<>>}
    ELSE LET size == Head(nvec)
             samp == sample_softmax(Slice(action, sidx, sidx + size))
         IN  {<<x>> \o rest : x \in samp,
                rest \in SampleSegments(Tail(nvec), action, NextSidx(sidx, size))}

\* whether modify_action checks the action against the warped space
MutChecksActionNever(continuous_actions) == FALSE

ChecksAction(continuous_actions) == continuous_actions

\* the actions the branches on the original space's kind can produce; none
\* when np.max is given an empty vector, which raises
Sampled(act_space, action) ==
    CASE act_space.kind = "Discrete" -> {<<x>> : x \in sample_softmax(action)}
      [] act_space.kind = "MultiDiscrete" -> SampleSegments(act_space.nvec, action, 0)
      [] OTHER -> {action}

modify_action(a, orig, warped, agent, action) ==
    LET act_space == orig[agent]
    IN  IF ~a.continuous_actions THEN [err |-> "", fwd |-> {action}]
        ELSE IF ChecksAction(a.continuous_actions) /\ ~Contains(warped[agent], action)
             THEN [err |-> "AssertionError", fwd |-> {}]
        ELSE IF act_space.kind \notin {"Discrete", "MultiDiscrete", "Box"}
             THEN [err |-> "AssertionError", fwd |-> {}]
        ELSE IF Sampled(act_space, action) = {}
             THEN [err |-> "ValueError", fwd |-> {}]
        ELSE [err |-> "", fwd |-> Sampled(act_space, action)]

-----------------------------------------------------------------------------
(* The Environment: what the wrapper consumes of an AECEnv *)

\* an observation env.observe(agent) can return: one of the agent's original space
RawObs(agent) ==
    LET sp == env_observation_spaces[agent]
    IN  {[src |-> agent, val |-> Rat(v, 1), shape |-> sp.shape, dtype |-> sp.dtype] :
            v \in sp.low.n .. sp.high.n}

\* env.reset gives the turn to the first agent of agent_order
EnvResetSelection == agents[1]

\* env.step gives the turn to the next agent of agent_order
EnvNextSelection(agent) ==
    LET i == CHOOSE j \in 1..Len(agents) : agents[j] = agent
    IN  agents[(i % Len(agents)) + 1]

\* the members of an original action space
Members(space) ==
    CASE space.kind = "Discrete" -> {<<x>> : x \in 0..(space.n - 1)}
      [] space.kind = "MultiDiscrete" ->
            {v \in [1..Len(space.nvec) -> 0..Max(space.nvec)] :
                \A i \in 1..Len(space.nvec) : v[i] < space.nvec[i]}
      [] space.kind = "Box" ->
            {v \in [1..space.len -> LogitVals] :
                \A i \in 1..space.len : space.low <= v[i] /\ v[i] <= space.high}
      [] OTHER -> {<<>>}

\* the actions a caller passes to step: any vector when continuous_actions is
\* set, a member of the agent's original space otherwise
CallerActions(agent) ==
    IF args.continuous_actions
    THEN UNION {[1..n -> LogitVals] : n \in 0..MaxActLen}
    ELSE Members(orig_action_spaces[agent])

-----------------------------------------------------------------------------
(* Environments and constructor arguments tried *)

\* images of two shapes, uint8
ImagesUint8 ==
    [a \in AgentSet |->
        IF a = "a1" THEN Box(<<2, 2, 3>>, "uint8", Rat(0, 1), Rat(1, 1))
        ELSE Box(<<4, 2, 3>>, "uint8", Rat(1, 1), Rat(2, 1))]

\* images of one shape, float32
ImagesFloat ==
    [a \in AgentSet |->
        IF a = "a1" THEN Box(<<2, 2, 3>>, "float32", Rat(1, 1), Rat(3, 1))
        ELSE Box(<<2, 2, 3>>, "float32", Rat(0, 1), Rat(1, 1))]

\* vectors of one shape and dtype, with bounds that tell the agents apart
Vectors ==
    [a \in AgentSet |->
        IF a = "a1" THEN Box(<<2>>, "float32", Rat(0, 1), Rat(2, 1))
        ELSE Box(<<2>>, "float32", Rat(3, 1), Rat(4, 1))]

OneAction == [a \in AgentSet |-> Discrete(1)]

DiscreteActions ==
    [a \in AgentSet |-> IF a = "a1" THEN Discrete(2) ELSE MultiDiscrete(<<1, 2>>)]

BoxActions ==
    [a \in AgentSet |-> IF a = "a1" THEN ActBox(2, -1, 1) ELSE Discrete(2)]

UnsupportedActions ==
    [a \in AgentSet |-> IF a = "a1" THEN Discrete(2) ELSE OtherSpace]

\* a dict that has no entry for the last agent
Partial(v) == Dict([a \in {agents[1]} |-> v])

PerAgent(v1, v2) == Dict([a \in AgentSet |-> IF a = "a1" THEN v1 ELSE v2])

ColorArgs == {NoArg, Uniform("full"), PerAgent("R", "B"), Partial("G")}

DownScaleArgs ==
    {NoArg, Uniform(<<2, 2>>), Uniform(<<2, 2, 1>>), PerAgent(<<2>>, <<1>>),
     Partial(<<2, 2>>)}

RangeScaleArgs == {NoArg, Uniform(<<0, 1>>), Uniform(<<1, 3>>), Partial(<<0, 1>>)}

NewDtypeArgs ==
    {NoArg, Uniform("float32"), PerAgent("float32", "uint8"), Partial("float32")}

Depths == 1..MaxDepth

\* every combination of the observation options
AllArgs ==
    [color_reduction : ColorArgs, down_scale : DownScaleArgs,
     reshape : {"none"} \cup Range(OBS_RESHAPE_LIST),
     range_scale : RangeScaleArgs, new_dtype : NewDtypeArgs,
     continuous_actions : {FALSE}, frame_stacking : Depths]

\* frame stacking alone
StackingArgs ==
    [color_reduction : {NoArg}, down_scale : {NoArg}, reshape : {"none", "flatten"},
     range_scale : {NoArg}, new_dtype : {NoArg},
     continuous_actions : {FALSE}, frame_stacking : Depths]

\* the action options
ActionArgs ==
    [color_reduction : {NoArg}, down_scale : {NoArg}, reshape : {"none"},
     range_scale : {NoArg}, new_dtype : {NoArg},
     continuous_actions : BOOLEAN, frame_stacking : Depths]

-----------------------------------------------------------------------------
(* State *)

NoFrame == [src |-> "none", val |-> Rat(0, 1), shape |-> <<>>, dtype |-> "none"]

NoRet == [shape |-> <<>>, dtype |-> "none"]

NoRun == [agent |-> "none", frames |-> <<>>]

\* what a call leaves in `last`
\* what a call leaves in `last`: the agent given to modify_observation, the
\* exception, the Environment's observation, the transformed frame, the
\* returned array's shape and dtype, and for step the agent that acted, the
\* caller's action and the action forwarded to the Environment
Call(op, observe, agent, err, raw, pre, ret, actor, action, fwd) ==
    [op |-> op, observe |-> observe, agent |-> agent, err |-> err, raw |-> raw,
     pre |-> pre, ret |-> ret, actor |-> actor, action |-> action, fwd |-> fwd]

NoCall == Call("none", FALSE, "none", "", NoFrame, NoFrame, NoRet, "none", <<>>, <<>>)

\* before __init__ runs: the Environment as built, nothing of the wrapper yet
InitWith(argSet, obsSpaces, actSpaces, budget) ==
    /\ args \in argSet
    /\ env_observation_spaces \in obsSpaces
    /\ orig_action_spaces \in actSpaces
    /\ calls = budget
    /\ pc = "new"
    /\ cfg = NoConfig
    /\ observation_spaces = env_observation_spaces
    /\ action_spaces = orig_action_spaces
    /\ env_agent_selection = agents[1]
    /\ agent_selection = "none"
    /\ env_rewards = 0
    /\ rewards = 0
    /\ stack_of_frames = [a \in AgentSet |-> NoStack]
    /\ last = NoCall
    /\ run = NoRun

InitConfig ==
    InitWith(AllArgs, {ImagesUint8, ImagesFloat, Vectors}, {OneAction}, FewCalls)

InitStacking == InitWith(StackingArgs, {Vectors}, {OneAction}, MaxCalls)

InitActions ==
    InitWith(ActionArgs, {Vectors},
             {DiscreteActions, BoxActions, UnsupportedActions}, FewCalls + 1)

-----------------------------------------------------------------------------
(* __init__ *)

Construct ==
    /\ pc = "new"
    /\ LET c == NormalizedConfig(args)
           actErr == ModifyActionSpaceErr(args, orig_action_spaces)
           st == modify_observation_space(args, c, observation_spaces)
           failed(e) == /\ pc' = "failed"
                        /\ last' = [NoCall EXCEPT !.op = "init", !.err = e]
       IN  /\ agent_selection' = env_agent_selection
           /\ rewards' = env_rewards
           /\ IF ~ParamsOK(args, c, observation_spaces)
              THEN /\ failed("AssertionError")
                   /\ UNCHANGED <<cfg, action_spaces, observation_spaces>>
              ELSE IF actErr # ""
              THEN /\ failed(actErr)
                   /\ cfg' = c
                   /\ action_spaces' = modify_action_space(args, orig_action_spaces)
                   /\ UNCHANGED observation_spaces
              ELSE /\ cfg' = c
                   /\ action_spaces' = modify_action_space(args, orig_action_spaces)
                   /\ IF _check_box_space(observation_spaces)
                      THEN /\ observation_spaces' = st.spaces
                           /\ IF st.err # "" THEN failed(st.err)
                              ELSE /\ pc' = "ready"
                                   /\ last' = [NoCall EXCEPT !.op = "init"]
                      ELSE /\ UNCHANGED observation_spaces
                           /\ pc' = "ready"
                           /\ last' = [NoCall EXCEPT !.op = "init"]
    /\ UNCHANGED <<args, env_observation_spaces, orig_action_spaces,
                   env_agent_selection, env_rewards, stack_of_frames, run, calls>>

-----------------------------------------------------------------------------
(* reset, observe, step *)

Ready == pc = "ready" /\ calls > 0

\* last' after modify_observation(agent, raw) returned or raised r
Delivered(op, agent, raw, r, frames, actor, action, fwd) ==
    IF r.err = ""
    THEN Call(op, TRUE, agent, "", raw, r.obs, Returned(args, frames, agent, r),
              actor, action, fwd)
    ELSE Call(op, TRUE, agent, r.err, raw, NoFrame, NoRet, actor, action, fwd)

\* last' after a call that asked for no observation
NotObserved(op, actor, action, fwd) ==
    Call(op, FALSE, "none", "", NoFrame, NoFrame, NoRet, actor, action, fwd)

\* self.agent_selection after reset: reset does not assign it
SelectionAfterReset(selection, env_selection) == selection

\* self.agent_selection after step
SelectionAfterStep(selection, env_selection) == env_selection

\* the agent step passes to modify_observation: env.agent_selection as read
\* before env.step
ObservedByStep(before, after) == before

Reset ==
    /\ Ready
    /\ \E observe \in BOOLEAN :
        LET agent == EnvResetSelection
        IN  IF observe
            THEN \E obs \in RawObs(agent) :
                    LET r == Transform(args, cfg, agent, obs)
                        frames == StackAfter(args, stack_of_frames, agent, r)
                    IN  /\ stack_of_frames' = frames
                        /\ last' = Delivered("reset", agent, obs, r, frames, "none", <<>>, <<>>)
                        /\ run' = IF r.err = "" THEN [agent |-> agent, frames |-> <<r.obs>>]
                                  ELSE NoRun
            ELSE /\ last' = NotObserved("reset", "none", <<>>, <<>>)
                 /\ run' = NoRun
                 /\ UNCHANGED stack_of_frames
    /\ env_agent_selection' = EnvResetSelection
    /\ env_rewards' = 0
    /\ agent_selection' = SelectionAfterReset(agent_selection, EnvResetSelection)
    /\ calls' = calls - 1
    /\ UNCHANGED <<args, env_observation_spaces, orig_action_spaces, pc, cfg,
                   observation_spaces, action_spaces, rewards>>

Observe ==
    /\ Ready
    /\ \E agent \in AgentSet : \E obs \in RawObs(agent) :
        LET r == Transform(args, cfg, agent, obs)
            frames == StackAfter(args, stack_of_frames, agent, r)
        IN  /\ stack_of_frames' = frames
            /\ last' = Delivered("observe", agent, obs, r, frames, "none", <<>>, <<>>)
            /\ run' = IF r.err = "" /\ run.agent = agent
                      THEN [run EXCEPT !.frames = Append(@, r.obs)]
                      ELSE NoRun
    /\ calls' = calls - 1
    /\ UNCHANGED <<args, env_observation_spaces, orig_action_spaces, pc, cfg,
                   observation_spaces, action_spaces, agent_selection,
                   env_agent_selection, rewards, env_rewards>>

Step ==
    /\ Ready
    /\ \E action \in CallerActions(env_agent_selection), observe \in BOOLEAN :
        LET agent == env_agent_selection
            m == modify_action(args, orig_action_spaces, action_spaces, agent, action)
            next == EnvNextSelection(agent)
            stepped == /\ env_agent_selection' = next
                       /\ env_rewards' = env_rewards + 1
            returned == /\ agent_selection' = SelectionAfterStep(agent_selection, next)
                        /\ rewards' = env_rewards + 1
        IN  IF m.err # ""
            THEN /\ last' = Call("step", observe, "none", m.err, NoFrame, NoFrame,
                                 NoRet, agent, action, <<>>)
                 /\ UNCHANGED <<env_agent_selection, env_rewards, agent_selection,
                                rewards, stack_of_frames>>
            ELSE \E new_action \in m.fwd :
                    /\ stepped
                    /\ IF observe
                       THEN \E next_obs \in RawObs(next) :
                            LET to == ObservedByStep(agent, next)
                                r == Transform(args, cfg, to, next_obs)
                                frames == StackAfter(args, stack_of_frames, to, r)
                            IN  /\ stack_of_frames' = frames
                                /\ last' = Delivered("step", to, next_obs, r, frames,
                                                     agent, action, new_action)
                                /\ IF r.err = "" THEN returned
                                   ELSE UNCHANGED <<agent_selection, rewards>>
                       ELSE /\ last' = NotObserved("step", agent, action, new_action)
                            /\ returned
                            /\ UNCHANGED stack_of_frames
    /\ run' = NoRun
    /\ calls' = calls - 1
    /\ UNCHANGED <<args, env_observation_spaces, orig_action_spaces, pc, cfg,
                   observation_spaces, action_spaces>>

Next == Construct \/ Reset \/ Observe \/ Step

\* every combination of the observation options, one call each
SpecConfig == InitConfig /\ [][Next]_vars

\* frame stacking, followed over MaxCalls calls
SpecStacking == InitStacking /\ [][Next]_vars

\* the action options
SpecActions == InitActions /\ [][Next]_vars

-----------------------------------------------------------------------------
(* Properties *)

Completed(ops) == pc = "ready" /\ last.op \in ops /\ last.err = ""

Observed(ops) == Completed(ops) /\ last.observe

\* C1: when modify_observation is called for an agent with an observation
\* of that agent's original space, the array that reset, observe or step
\* returns has the shape and the dtype of the observation space declared for
\* the agent at construction (every block size tried divides the extent it
\* reduces).
C1_ReturnedMatchesDeclared ==
    (Observed({"reset", "observe", "step"}) /\ last.raw.src = last.agent) =>
        /\ last.ret.shape = observation_spaces[last.agent].shape
        /\ last.ret.dtype = observation_spaces[last.agent].dtype

LastSlots(frames, k) == SubSeq(frames, Len(frames) - k + 1, Len(frames))

Distinct(frames) ==
    \A i, j \in 1..Len(frames) : i # j => frames[i] # frames[j]

\* C2: with frame_stacking = k > 1, after a reset and n observe calls for
\* the agent the reset observed, delivering distinct frames o0..on with
\* k <= n + 1, that agent's stack holds o_{n-k+1}, ..., o_n, oldest first.
C2_StackIsLastKFrames ==
    (/\ pc = "ready"
     /\ args.frame_stacking > 1
     /\ run.agent # "none"
     /\ Len(run.frames) >= args.frame_stacking
     /\ Distinct(run.frames)) =>
        stack_of_frames[run.agent].slots = LastSlots(run.frames, args.frame_stacking)

\* a reset and more observe calls than the stack has slots, so that the
\* reset's own frame has been evicted
C2_Witness ==
    /\ pc = "ready"
    /\ args.frame_stacking > 1
    /\ run.agent # "none"
    /\ Len(run.frames) > args.frame_stacking
    /\ Distinct(run.frames)
    /\ last.op = "observe"
    /\ stack_of_frames[run.agent].slots = LastSlots(run.frames, args.frame_stacking)

\* C3: with frame_stacking = k > 1, after every reset that returns an
\* observation, all k slots of the observed agent's stack hold that
\* observation's frame.
C3_ResetRefillsStack ==
    (Observed({"reset"}) /\ args.frame_stacking > 1) =>
        /\ stack_of_frames[last.agent].set
        /\ \A i \in 1..args.frame_stacking :
                stack_of_frames[last.agent].slots[i] = last.pre

\* the i-th contiguous segment of an action, the segments taken in the order
\* of nvec
Segment(action, nvec, i) ==
    SubSeq(action, Sum(SubSeq(nvec, 1, i - 1)) + 1, Sum(SubSeq(nvec, 1, i)))

InOriginalSpace(space, action, fwd) ==
    CASE space.kind = "Discrete" ->
            /\ Len(fwd) = 1
            /\ fwd[1] \in 0..(space.n - 1)
            /\ fwd[1] \in sample_softmax(action)
      [] space.kind = "MultiDiscrete" ->
            /\ Len(fwd) = Len(space.nvec)
            /\ Len(action) = Sum(space.nvec)
            /\ \A i \in 1..Len(space.nvec) :
                /\ fwd[i] \in 0..(space.nvec[i] - 1)
                /\ fwd[i] \in sample_softmax(Segment(action, space.nvec, i))
      [] space.kind = "Box" -> fwd = action /\ Contains(space, fwd)
      [] OTHER -> FALSE

\* C4: with continuous_actions, the action step forwards to the Environment
\* is a member of the acting agent's original action space: an index below n
\* for Discrete(n); for MultiDiscrete(nvec) one index below nvec[i] per
\* dimension, sampled from the i-th contiguous segment of the input; the
\* input itself for a Box.
C4_ForwardedInOriginalSpace ==
    (Completed({"step"}) /\ args.continuous_actions) =>
        InOriginalSpace(orig_action_spaces[last.actor], last.action, last.fwd)

\* a MultiDiscrete step whose segments leave one index each
C4_Witness ==
    /\ Completed({"step"})
    /\ args.continuous_actions
    /\ orig_action_spaces[last.actor].kind = "MultiDiscrete"
    /\ last.action = <<0, -800, 0>>
    /\ last.fwd = <<0, 1>>

\* C5: with continuous_actions, a step whose action is not in the acting
\* agent's continuous space raises the assertion and changes nothing: the
\* Environment's turn and rewards, the wrapper's agent_selection and rewards
\* and every frame stack are as before.
C5_InvalidActionChangesNothing ==
    [][(/\ pc = "ready"
        /\ last'.op = "step"
        /\ calls' = calls - 1
        /\ args.continuous_actions
        /\ ~Contains(action_spaces[env_agent_selection], last'.action)) =>
            (/\ last'.err = "AssertionError"
             /\ UNCHANGED <<env_agent_selection, env_rewards, agent_selection,
                            rewards, stack_of_frames>>)]_vars

\* a refused step of an agent that has a frame stack
C5_Witness ==
    /\ pc = "ready"
    /\ last.op = "step"
    /\ last.err = "AssertionError"
    /\ args.continuous_actions
    /\ stack_of_frames[last.actor].set
    /\ ~Contains(action_spaces[last.actor], last.action)

PerAgentOptions == {"color_reduction", "down_scale", "range_scale", "new_dtype"}

OmitsAnAgent(arg) == arg.kind = "dict" /\ AgentSet \ DOMAIN arg.map # {}

\* C6: a uniform color_reduction, down_scale, range_scale or new_dtype
\* becomes a mapping that gives that value to every agent; a mapping that
\* omits an agent makes construction fail with the assertion, no observation
\* or action space rewritten; and the assertion is raised only for a mapping
\* that omits an agent, a color reduction of a space that is not 3-D, or an
\* unsupported action space.
C6_ConfigNormalization ==
    /\ \A o \in PerAgentOptions :
        (pc = "ready" /\ args[o].kind = "uniform") =>
            cfg[o].map = [a \in AgentSet |-> args[o].map["all"]]
    /\ \A o \in PerAgentOptions :
        (pc # "new" /\ OmitsAnAgent(args[o])) =>
            /\ pc = "failed"
            /\ last.err = "AssertionError"
            /\ observation_spaces = env_observation_spaces
            /\ action_spaces = orig_action_spaces
    /\ (pc = "failed" /\ last.err = "AssertionError") =>
            \/ \E o \in PerAgentOptions : OmitsAnAgent(args[o])
            \/ /\ args.color_reduction.kind # "none"
               /\ \E a \in AgentSet : Len(env_observation_spaces[a].shape) # 3
            \/ /\ args.continuous_actions
               /\ \E a \in AgentSet : orig_action_spaces[a].kind = "Other"

\* a wrapper built from uniform values
C6_Witness ==
    /\ pc = "ready"
    /\ args.color_reduction.kind = "uniform"
    /\ args.new_dtype.kind = "uniform"
    /\ cfg.color_reduction.map = [a \in AgentSet |-> "full"]
    /\ cfg.new_dtype.map = [a \in AgentSet |-> "float32"]

InBounds(val, space) == RatLeq(space.low, val) /\ RatLeq(val, space.high)

\* C7: with range_scale = (lo, hi), lo < hi, the scaled value of an
\* observation of the agent's own space lies within the bounds declared for
\* the agent at construction.
C7_ScaledWithinDeclared ==
    (/\ Observed({"observe"})
     /\ IsSet(cfg.range_scale)
     /\ cfg.range_scale.map[last.agent][1] < cfg.range_scale.map[last.agent][2]) =>
        InBounds(last.pre.val, observation_spaces[last.agent])

\* the agent's space after its own color reduction, downscale and reshape
OwnCurrentSpace(a) ==
    SpaceSteps(args, [cfg EXCEPT !.range_scale = NoArg, !.new_dtype = NoArg],
               env_observation_spaces).spaces[a]

DtypeOnly == IsSet(NormalizedConfig(args).new_dtype) /\ ~IsSet(NormalizedConfig(args).range_scale)

\* C8: with new_dtype set and range_scale not, construction declares for
\* every agent the agent's own current bounds (after its own color
\* reduction, downscale and reshape), unchanged in value, in the agent's new
\* dtype; never another agent's, never those left by an earlier step.
C8_DtypeOnlyKeepsOwnBounds ==
    /\ (DtypeOnly /\ pc = "failed") => last.err # "NameError"
    /\ (DtypeOnly /\ pc = "ready") =>
        \A a \in AgentSet :
            /\ RatEq(observation_spaces[a].low, OwnCurrentSpace(a).low)
            /\ RatEq(observation_spaces[a].high, OwnCurrentSpace(a).high)
            /\ observation_spaces[a].dtype = cfg.new_dtype.map[a]
            /\ observation_spaces[a].shape =
                    IF args.frame_stacking > 1
                    THEN StackShape(OwnCurrentSpace(a).shape, args.frame_stacking)
                    ELSE OwnCurrentSpace(a).shape

\* C9: with frame_stacking > 1, every slot of an agent's stack holds a frame
\* of an observation of that agent; step never puts the next agent's
\* observation into the stack of the agent that acted.
C9_StackHoldsOwnFrames ==
    (pc = "ready" /\ args.frame_stacking > 1) =>
        \A a \in AgentSet :
            \A i \in 1..Len(stack_of_frames[a].slots) :
                stack_of_frames[a].slots[i].src = a

\* C10: after construction and after every completed reset or step, the
\* wrapper's agent_selection is the Environment's.
C10_SelectionFollowsEnvironment ==
    Completed({"init", "reset", "step"}) => agent_selection = env_agent_selection


====
